---- MODULE Spec2Model ----
(***************************************************************************)
(* Live-call synchronisation core of the AICC web client.                  *)
(*                                                                         *)
(*   - the call slice (store/slices/callSlice.ts, src/unnamed/part_000):   *)
(*     reducers and the four async thunks;                                 *)
(*   - the useCall facade and the useWebSocket hook                        *)
(*     (src/frontend/src/hooks/useCall.ts);                                *)
(*   - the glue of the pages (CallPage.tsx, HomePage.tsx).                 *)
(*                                                                         *)
(* Spec     : the store, the thunks in flight and the call view.           *)
(* SpecRest : the store under the REST operations and their failures.      *)
(* SpecWS   : the useWebSocket hook as CallPage uses it: sockets, refs and *)
(*            reconnect timers.                                            *)
(* SpecSend : SpecWS with a caller that passes onOpen and calls            *)
(*            sendMessage.                                                 *)
(* SpecStream : one connection of the hook with its inbound messages, as  *)
(*            CallPage handles them.                                       *)
(***************************************************************************)
EXTENDS Integers, Sequences, FiniteSets, TLC

VARIABLES
    state,          \* CallState of the slice (part_000:9-27)
    inflight,       \* thunks awaiting a REST response: request -> how many
    viewCallId,     \* callId route parameter of the mounted CallPage, or NoId
    last,           \* history: the action dispatched last, with its payload
    sinceSnapshot   \* history: whether a snapshot is in force (none before the
                    \* first one and after a clear) and, if so, its list
                    \* followed by the entries appended since

VARIABLES
    sockets,                \* the WebSocket objects not yet collected, by slot
    wsRef,                  \* wsRef.current: a slot, or 0 for null
    reconnectTimeoutRef,    \* reconnectTimeoutRef.current: the slot whose
                            \* onclose set the timer, or 0 for undefined
    hookCallId              \* callId of the effect of useWebSocket in force,
                            \* NoId when none is (unmounted, or callId null)

storeVars == <<state, inflight, viewCallId, last, sinceSnapshot>>

wsVars == <<sockets, wsRef, reconnectTimeoutRef, hookCallId>>

vars == <<state, inflight, viewCallId, last, sinceSnapshot,
          sockets, wsRef, reconnectTimeoutRef, hookCallId>>

----------------------------------------------------------------------------
(* Bounds and value sets *)

MaxLog == 2         \* longest transcript log explored
MaxInflight == 2    \* most REST requests awaited at once
MaxSockets == 2     \* most WebSocket objects alive at once
MaxSent == 2        \* most outbound messages recorded per connection
MaxReceived == 2    \* most inbound payloads delivered per connection

ReconnectDelay == 3000  \* setTimeout(..., 3000) of ws.onclose

\* null / undefined of an object or a list; NoId where a string is absent;
\* NoError is the null of the error field (string | null).
NULL == [null |-> TRUE]
NoId == "none"
NoError == "null"

CallIds == {"A", "B"}

CallStatus == {"initiating", "ringing", "in_progress", "completed", "failed"}

\* Call record (types/call.ts): the fields the core reads or writes.
Call(id, status) ==
    [id |-> id, status |-> status, phone_number |-> "+821012345678"]

Calls == {Call(c, s) : c \in CallIds, s \in CallStatus}

\* WebSocketTranscriptMessage: what the stream carries for one utterance.
\* The later timestamp is on the utterance that may arrive first.
TranscriptMessages ==
    { [type |-> "transcript", speaker |-> "user", text |-> "hello", timestamp |-> 2],
      [type |-> "transcript", speaker |-> "ai", text |-> "hi there", timestamp |-> 1] }

\* Transcript (types/transcript.ts) built from a stream message by CallPage.
\* The id (crypto.randomUUID()) is left out: nothing reads it.
Transcript(callId, m) ==
    [call_id |-> callId, speaker |-> m.speaker, text |-> m.text,
     timestamp |-> m.timestamp, created_at |-> m.timestamp]

AiFirst == CHOOSE m \in TranscriptMessages : m.timestamp = 1
UserNext == CHOOSE m \in TranscriptMessages : m.timestamp = 2

\* GET /transcripts/{call_id}: the stored list, in timestamp order.
TranscriptLists(callId) ==
    { <<>>,
      <<Transcript(callId, AiFirst)>>,
      <<Transcript(callId, AiFirst), Transcript(callId, UserNext)>> }

\* error.message of a rejected thunk; the empty one takes the fallback text.
ErrorMessages == {"Network Error", ""}

\* CallListResponse of GET /calls (types/call.ts): items, total and page.
CallListResponse(items, total, page) ==
    [items |-> items, total |-> total, page |-> page]

CallListResponses ==
    { CallListResponse(<<>>, 0, 1),
      CallListResponse(<<Call("A", "completed")>>, 1, 1),
      CallListResponse(<<Call("B", "failed")>>, 21, 2) }

initialState ==
    [activeCall |-> NULL,
     callHistory |-> <<>>,
     transcripts |-> <<>>,
     loading |-> FALSE,
     error |-> NoError,
     totalCalls |-> 0,
     currentPage |-> 1]

----------------------------------------------------------------------------
(* Reducers of callSlice *)

\* Mutant: the callId of the event is not compared with activeCall.id.
updateCallStatus_AnyCall(s, payload) ==
    IF s.activeCall # NULL
    THEN [s EXCEPT !.activeCall.status = payload.status]
    ELSE s

\* Mutant: a status event starts the log of the call afresh.
updateCallStatus_NewLog(s, payload) ==
    IF s.activeCall # NULL /\ s.activeCall.id = payload.callId
    THEN [s EXCEPT !.activeCall.status = payload.status, !.transcripts = <<>>]
    ELSE s

updateCallStatus(s, payload) ==
    IF s.activeCall # NULL /\ s.activeCall.id = payload.callId
    THEN [s EXCEPT !.activeCall.status = payload.status]
    ELSE s

\* Mutant: unshift instead of push.
addTranscript_Prepend(s, payload) ==
    [s EXCEPT !.transcripts = <<payload>> \o @]

\* Mutant: the log is kept in timestamp order.
addTranscript_ByTimestamp(s, payload) ==
    [s EXCEPT !.transcripts =
        SelectSeq(s.transcripts, LAMBDA e : e.timestamp <= payload.timestamp)
        \o <<payload>>
        \o SelectSeq(s.transcripts, LAMBDA e : e.timestamp > payload.timestamp)]

addTranscript(s, payload) ==
    [s EXCEPT !.transcripts = Append(@, payload)]

setError(s, payload) ==
    [s EXCEPT !.error = payload]

\* Mutant: the whole slice goes back to its initial state.
clearActiveCall_Reset(s) == initialState

clearActiveCall(s) ==
    [s EXCEPT !.activeCall = NULL, !.transcripts = <<>>]

initiateCallPending(s) ==
    [s EXCEPT !.loading = TRUE, !.error = NoError]

\* Mutant: the log of the call shown before is kept.
initiateCallFulfilled_KeepLog(s, payload) ==
    [s EXCEPT !.loading = FALSE, !.activeCall = payload.call]

initiateCallFulfilled(s, payload) ==
    [s EXCEPT !.loading = FALSE, !.activeCall = payload.call, !.transcripts = <<>>]

\* Mutant: a failed start drops the call and the log that were shown.
initiateCallRejected_Clear(s, message) ==
    [s EXCEPT !.loading = FALSE,
              !.activeCall = NULL,
              !.transcripts = <<>>,
              !.error = IF message # "" THEN message ELSE "Failed to initiate call"]

initiateCallRejected(s, message) ==
    [s EXCEPT !.loading = FALSE,
              !.error = IF message # "" THEN message ELSE "Failed to initiate call"]

fetchCallHistoryPending(s) ==
    [s EXCEPT !.loading = TRUE]

\* Mutant: the page number of the response is not stored.
fetchCallHistoryFulfilled_NoPage(s, payload) ==
    [s EXCEPT !.loading = FALSE,
              !.callHistory = payload.items,
              !.totalCalls = payload.total]

fetchCallHistoryFulfilled(s, payload) ==
    [s EXCEPT !.loading = FALSE,
              !.callHistory = payload.items,
              !.totalCalls = payload.total,
              !.currentPage = payload.page]

\* Mutant: a failed load empties the list.
fetchCallHistoryRejected_Reset(s, message) ==
    [s EXCEPT !.loading = FALSE,
              !.callHistory = <<>>,
              !.error = IF message # "" THEN message
                        ELSE "Failed to fetch call history"]

fetchCallHistoryRejected(s, message) ==
    [s EXCEPT !.loading = FALSE,
              !.error = IF message # "" THEN message
                        ELSE "Failed to fetch call history"]

fetchCallDetailsPending(s) ==
    [s EXCEPT !.loading = TRUE]

\* Mutant: the fetched list is added to the log instead of replacing it.
fetchCallDetailsFulfilled_Merge(s, payload) ==
    [s EXCEPT !.loading = FALSE,
              !.activeCall = payload.call,
              !.transcripts = @ \o payload.transcripts]

\* Mutant: a call that has ended is not overwritten.
fetchCallDetailsFulfilled_KeepEnded(s, payload) ==
    IF s.activeCall # NULL /\ s.activeCall.status \in {"completed", "failed"}
    THEN [s EXCEPT !.loading = FALSE]
    ELSE [s EXCEPT !.loading = FALSE,
                   !.activeCall = payload.call,
                   !.transcripts = payload.transcripts]

fetchCallDetailsFulfilled(s, payload) ==
    [s EXCEPT !.loading = FALSE,
              !.activeCall = payload.call,
              !.transcripts = payload.transcripts]

fetchCallDetailsRejected(s, message) ==
    [s EXCEPT !.loading = FALSE,
              !.error = IF message # "" THEN message ELSE "Failed to fetch call details"]

\* Mutant: the status is set to completed when the request is sent.
endCallPending_Optimistic(s) ==
    IF s.activeCall # NULL
    THEN [s EXCEPT !.activeCall.status = "completed"]
    ELSE s

\* The builder has no case for endCall.pending: the state is returned as is.
endCallPending(s) == s

\* Mutant: the status is left for the stream to report.
endCallFulfilled_AwaitEvent(s) == s

endCallFulfilled(s) ==
    IF s.activeCall # NULL
    THEN [s EXCEPT !.activeCall.status = "completed"]
    ELSE s

\* The builder has no case for endCall.rejected either.
endCallRejected(s, message) == s

----------------------------------------------------------------------------
(* Thunks in flight *)

Request(kind, stage, callId) == [kind |-> kind, stage |-> stage, callId |-> callId]

Requests ==
    {Request("initiate", "initiateCall", NoId)}
    \cup {Request("initiate", "getCall", c) : c \in CallIds}
    \cup {Request("details", "getCall", c) : c \in CallIds}
    \cup {Request("end", "endCall", c) : c \in CallIds}
    \cup {Request("history", "getCalls", NoId)}

RECURSIVE SumOver(_, _)
SumOver(f, S) ==
    IF S = {} THEN 0
    ELSE LET x == CHOOSE y \in S : TRUE IN f[x] + SumOver(f, S \ {x})

Awaited == SumOver(inflight, Requests)

Issue(r) == [inflight EXCEPT ![r] = @ + 1]
Settle(r) == [inflight EXCEPT ![r] = @ - 1]
Advance(r, r2) == [[inflight EXCEPT ![r] = @ - 1] EXCEPT ![r2] = @ + 1]

NoSnapshot == [inForce |-> FALSE, log |-> <<>>]
Snapshot(list) == [inForce |-> TRUE, log |-> list]

\* The dispatched action: its type and the call it is about; for a snapshot
\* (initiateCall.fulfilled, fetchCallDetails.fulfilled) its payload, and
\* whether the action dispatched before it was the same; for a rejection the
\* error it carries.
Action(type, callId) ==
    [type |-> type, callId |-> callId, payload |-> NULL, repeated |-> FALSE]

RejectedAction(type, callId, message) ==
    [type |-> type, callId |-> callId, payload |-> [message |-> message],
     repeated |-> FALSE]

SnapshotAction(type, callId, payload, before) ==
    [type |-> type, callId |-> callId, payload |-> payload,
     repeated |-> before.type = type /\ before.payload = payload]

----------------------------------------------------------------------------
(* useWebSocket: the sockets *)

Slots == 1..MaxSockets

\* A WebSocket made by connect().  A socket whose onclose has fired and whose
\* reconnect timer has fired or been cleared has no behaviour left: its slot
\* is given back, and a ref that still held it reads as null (close() on it,
\* clearTimeout of its timer and its readyState test all do nothing).
\*   callId, stale : the closure that made it - its callId, and whether
\*                   disconnect() has run since that closure's effect began
\*   readyState    : CONNECTING, OPEN, CLOSING, CLOSED
\*   timer         : delay of the pending reconnect timer set by its onclose,
\*                   0 when none is pending
\*   sent          : outbound messages, in order
\*   received      : history - the payloads of its message events, in order,
\*                   each with whether its handler let an exception out
NoSocket ==
    [callId |-> NoId, readyState |-> "NONE", timer |-> 0, stale |-> FALSE,
     sent |-> <<>>, received |-> <<>>]

NewWebSocket(callId, stale) ==
    [callId |-> callId, readyState |-> "CONNECTING", timer |-> 0, stale |-> stale,
     sent |-> <<>>, received |-> <<>>]

FreeSlots(socks) == {k \in Slots : socks[k] = NoSocket}

FirstFree(socks) == CHOOSE k \in FreeSlots(socks) : \A j \in FreeSlots(socks) : k <= j

SubscribeMessage(callId) == [type |-> "subscribe", call_id |-> callId]

\* What a caller passes to sendMessage.
AppMessage == [type |-> "ping", call_id |-> NoId]

\* options.onOpen of the caller: absent, or a callback that calls sendMessage.
OnOpenCallbacks == {"undefined", "sendMessage"}

----------------------------------------------------------------------------
Init ==
    /\ state = initialState
    /\ inflight = [r \in Requests |-> 0]
    /\ viewCallId = NoId
    /\ last = Action("@@INIT", NoId)
    /\ sinceSnapshot = NoSnapshot
    /\ sockets = [k \in Slots |-> NoSocket]
    /\ wsRef = 0
    /\ reconnectTimeoutRef = 0
    /\ hookCallId = NoId

----------------------------------------------------------------------------
(* HomePage: startCall -> initiateCall thunk *)

\* PhoneInput submits only while loading is false; the thunk dispatches pending.
StartCall ==
    /\ ~state.loading
    /\ Awaited < MaxInflight
    /\ state' = initiateCallPending(state)
    /\ inflight' = Issue(Request("initiate", "initiateCall", NoId))
    /\ last' = Action("call/initiate/pending", NoId)
    /\ sinceSnapshot' = sinceSnapshot
    /\ UNCHANGED <<viewCallId, wsVars>>

\* POST /calls/initiate answered with call_id c: the thunk goes on to getCall(c).
InitiateCallResponse(c) ==
    /\ inflight[Request("initiate", "initiateCall", NoId)] > 0
    /\ inflight' = Advance(Request("initiate", "initiateCall", NoId),
                           Request("initiate", "getCall", c))
    /\ UNCHANGED <<state, viewCallId, last, sinceSnapshot, wsVars>>

\* getCall(c) answered: initiateCall.fulfilled with the record.
InitiateCallFulfilled(c, call) ==
    /\ inflight[Request("initiate", "getCall", c)] > 0
    /\ call.id = c
    /\ inflight' = Settle(Request("initiate", "getCall", c))
    /\ LET payload == [call |-> call] IN
        /\ state' = initiateCallFulfilled(state, payload)
        /\ last' = SnapshotAction("call/initiate/fulfilled", c, payload, last)
    /\ sinceSnapshot' = Snapshot(<<>>)
    /\ UNCHANGED <<viewCallId, wsVars>>

\* Either request of the thunk fails: initiateCall.rejected.
InitiateCallRejected(r, message) ==
    /\ r.kind = "initiate"
    /\ inflight[r] > 0
    /\ inflight' = Settle(r)
    /\ state' = initiateCallRejected(state, message)
    /\ last' = RejectedAction("call/initiate/rejected", r.callId, message)
    /\ UNCHANGED <<viewCallId, sinceSnapshot, wsVars>>

----------------------------------------------------------------------------
(* CallPage: load on mount -> fetchCallDetails thunk *)

\* The route shows CallPage for callId c (mount, or a change of the route
\* parameter): the effect of CallPage.tsx:27-31 calls loadCallDetails(c).
OpenCallView(c) ==
    /\ c # viewCallId
    /\ Awaited < MaxInflight
    /\ viewCallId' = c
    /\ state' = fetchCallDetailsPending(state)
    /\ inflight' = Issue(Request("details", "getCall", c))
    /\ last' = Action("call/fetchDetails/pending", c)
    /\ UNCHANGED <<sinceSnapshot, wsVars>>

\* Navigation away from CallPage (the buttons to /history, or handleEndCall's
\* timer): the page dispatches nothing.
CloseCallView ==
    /\ viewCallId # NoId
    /\ viewCallId' = NoId
    /\ UNCHANGED <<state, inflight, last, sinceSnapshot, wsVars>>

\* getCall(c), then getTranscripts(c), answered: fetchCallDetails.fulfilled.
\* Nothing is dispatched between the two requests.
FetchCallDetailsFulfilled(c, call, transcripts) ==
    /\ inflight[Request("details", "getCall", c)] > 0
    /\ call.id = c
    /\ inflight' = Settle(Request("details", "getCall", c))
    /\ LET payload == [call |-> call, transcripts |-> transcripts] IN
        /\ state' = fetchCallDetailsFulfilled(state, payload)
        /\ last' = SnapshotAction("call/fetchDetails/fulfilled", c, payload, last)
    /\ sinceSnapshot' = Snapshot(transcripts)
    /\ UNCHANGED <<viewCallId, wsVars>>

\* getCall or getTranscripts fails: fetchCallDetails.rejected.
FetchCallDetailsRejected(r, message) ==
    /\ r.kind = "details"
    /\ inflight[r] > 0
    /\ inflight' = Settle(r)
    /\ state' = fetchCallDetailsRejected(state, message)
    /\ last' = RejectedAction("call/fetchDetails/rejected", r.callId, message)
    /\ UNCHANGED <<viewCallId, sinceSnapshot, wsVars>>

----------------------------------------------------------------------------
(* HistoryPage: load on mount -> fetchCallHistory thunk *)

\* The route shows HistoryPage (CallPage is not mounted): its effect calls
\* loadCallHistory().
LoadCallHistory ==
    /\ viewCallId = NoId
    /\ Awaited < MaxInflight
    /\ state' = fetchCallHistoryPending(state)
    /\ inflight' = Issue(Request("history", "getCalls", NoId))
    /\ last' = Action("call/fetchHistory/pending", NoId)
    /\ UNCHANGED <<viewCallId, sinceSnapshot, wsVars>>

FetchCallHistoryFulfilled(response) ==
    /\ inflight[Request("history", "getCalls", NoId)] > 0
    /\ inflight' = Settle(Request("history", "getCalls", NoId))
    /\ state' = fetchCallHistoryFulfilled(state, response)
    /\ last' = Action("call/fetchHistory/fulfilled", NoId)
    /\ UNCHANGED <<viewCallId, sinceSnapshot, wsVars>>

FetchCallHistoryRejected(message) ==
    /\ inflight[Request("history", "getCalls", NoId)] > 0
    /\ inflight' = Settle(Request("history", "getCalls", NoId))
    /\ state' = fetchCallHistoryRejected(state, message)
    /\ last' = RejectedAction("call/fetchHistory/rejected", NoId, message)
    /\ UNCHANGED <<viewCallId, sinceSnapshot, wsVars>>

----------------------------------------------------------------------------
(* CallPage: handleEndCall -> stopCall -> endCall thunk *)

\* The button is rendered once loading is false and activeCall is set, and is
\* disabled when the status is completed (CallPage.tsx:63, 90).
StopCall ==
    /\ viewCallId # NoId
    /\ ~state.loading
    /\ state.activeCall # NULL
    /\ state.activeCall.status # "completed"
    /\ Awaited < MaxInflight
    /\ inflight' = Issue(Request("end", "endCall", viewCallId))
    /\ state' = endCallPending(state)
    /\ last' = Action("call/end/pending", viewCallId)
    /\ UNCHANGED <<viewCallId, sinceSnapshot, wsVars>>

EndCallFulfilled(c) ==
    /\ inflight[Request("end", "endCall", c)] > 0
    /\ inflight' = Settle(Request("end", "endCall", c))
    /\ state' = endCallFulfilled(state)
    /\ last' = Action("call/end/fulfilled", c)
    /\ UNCHANGED <<viewCallId, sinceSnapshot, wsVars>>

EndCallRejected(c, message) ==
    /\ inflight[Request("end", "endCall", c)] > 0
    /\ inflight' = Settle(Request("end", "endCall", c))
    /\ state' = endCallRejected(state, message)
    /\ last' = RejectedAction("call/end/rejected", c, message)
    /\ UNCHANGED <<viewCallId, sinceSnapshot, wsVars>>

----------------------------------------------------------------------------
(* CallPage: onMessage of the stream of the mounted view *)

\* {type: "transcript", ...}: handleNewTranscript with call_id = callId.
OnTranscriptMessage(m) ==
    /\ viewCallId # NoId
    /\ Len(state.transcripts) < MaxLog
    /\ LET entry == Transcript(viewCallId, m) IN
        /\ state' = addTranscript(state, entry)
        /\ last' = Action("call/addTranscript", viewCallId)
        /\ sinceSnapshot' = [sinceSnapshot EXCEPT !.log =
                                IF sinceSnapshot.inForce THEN Append(@, entry) ELSE @]
    /\ UNCHANGED <<inflight, viewCallId, wsVars>>

\* {type: "status_update", status}: handleStatusUpdate(callId, status).
OnStatusUpdateMessage(status) ==
    /\ viewCallId # NoId
    /\ LET payload == [callId |-> viewCallId, status |-> status] IN
        /\ state' = updateCallStatus(state, payload)
        /\ last' = Action("call/updateCallStatus", viewCallId)
    /\ UNCHANGED <<inflight, viewCallId, sinceSnapshot, wsVars>>

\* useCall.clearCall.
ClearCall ==
    /\ state' = clearActiveCall(state)
    /\ last' = Action("call/clearActiveCall", NoId)
    /\ sinceSnapshot' = NoSnapshot
    /\ UNCHANGED <<inflight, viewCallId, wsVars>>

----------------------------------------------------------------------------
Next ==
    \/ StartCall
    \/ \E c \in CallIds : InitiateCallResponse(c)
    \/ \E c \in CallIds, call \in Calls : InitiateCallFulfilled(c, call)
    \/ \E c \in CallIds : OpenCallView(c)
    \/ CloseCallView
    \/ \E c \in CallIds, call \in Calls :
          \E transcripts \in TranscriptLists(c) :
              FetchCallDetailsFulfilled(c, call, transcripts)
    \/ StopCall
    \/ \E c \in CallIds : EndCallFulfilled(c)
    \/ \E c \in CallIds : EndCallRejected(c, "Network Error")
    \/ \E m \in TranscriptMessages : OnTranscriptMessage(m)
    \/ \E status \in CallStatus : OnStatusUpdateMessage(status)
    \/ ClearCall

Spec == Init /\ [][Next]_vars

\* The REST operations of the facade with their failures, and no stream.
NextRest ==
    \/ StartCall
    \/ \E c \in CallIds : InitiateCallResponse(c)
    \/ \E c \in CallIds, call \in Calls : InitiateCallFulfilled(c, call)
    \/ \E r \in Requests, message \in ErrorMessages : InitiateCallRejected(r, message)
    \/ LoadCallHistory
    \/ \E response \in CallListResponses : FetchCallHistoryFulfilled(response)
    \/ \E message \in ErrorMessages : FetchCallHistoryRejected(message)
    \/ \E c \in CallIds : OpenCallView(c)
    \/ CloseCallView
    \/ \E c \in CallIds, call \in Calls :
          \E transcripts \in TranscriptLists(c) :
              FetchCallDetailsFulfilled(c, call, transcripts)
    \/ \E r \in Requests, message \in ErrorMessages :
          FetchCallDetailsRejected(r, message)
    \/ StopCall
    \/ \E c \in CallIds : EndCallFulfilled(c)
    \/ \E c \in CallIds, message \in ErrorMessages : EndCallRejected(c, message)
    \/ ClearCall

SpecRest == Init /\ [][NextRest]_vars

----------------------------------------------------------------------------
(* useWebSocket: connect, disconnect, sendMessage and the socket callbacks *)

\* connect() of a closure with this callId: new WebSocket, wsRef.current = ws.
\* Gives <<sockets, wsRef>>.
connect(socks, callId, stale) ==
    LET k == FirstFree(socks) IN
    <<[socks EXCEPT ![k] = NewWebSocket(callId, stale)], k>>

\* clearTimeout(reconnectTimeoutRef.current): gives the sockets.
clearReconnectTimeout(socks, ref) ==
    IF ref # 0 /\ socks[ref].timer # 0
    THEN [socks EXCEPT ![ref] = NoSocket]
    ELSE socks

\* wsRef.current.close(): the closing handshake starts; onclose comes later.
close(socks, ref) ==
    IF ref # 0 /\ socks[ref].readyState \in {"CONNECTING", "OPEN"}
    THEN [socks EXCEPT ![ref].readyState = "CLOSING"]
    ELSE socks

\* disconnect(): gives the sockets; wsRef.current becomes null.  Every closure
\* made so far has now seen disconnect().
disconnect(socks, ws, ref) ==
    LET closed == close(clearReconnectTimeout(socks, ref), ws) IN
    [k \in Slots |-> IF closed[k] = NoSocket THEN NoSocket
                     ELSE [closed[k] EXCEPT !.stale = TRUE]]

\* sendMessage(message): gives the sockets.
sendMessage(socks, ws, message) ==
    IF ws # 0 /\ socks[ws].readyState = "OPEN"
    THEN [socks EXCEPT ![ws].sent = Append(@, message)]
    ELSE socks

\* ws.onopen of socket k, with the caller's onOpen.
onopen(socks, ws, k, callback) ==
    LET opened == [socks EXCEPT ![k].readyState = "OPEN"]
        called == IF callback = "sendMessage"
                  THEN sendMessage(opened, ws, AppMessage)
                  ELSE opened
    IN  [called EXCEPT ![k].sent = Append(@, SubscribeMessage(socks[k].callId))]

\* Mutant: onclose sets no timer.
onclose_NoReconnect(socks, k) ==
    [socks EXCEPT ![k].readyState = "CLOSED"]

\* ws.onclose of socket k: the reconnect timer is set.
onclose(socks, k) ==
    [socks EXCEPT ![k].readyState = "CLOSED", ![k].timer = ReconnectDelay]

\* The effect of useWebSocket runs for the first time with callId c.
Mount(c) ==
    /\ hookCallId = NoId
    /\ FreeSlots(sockets) # {}
    /\ LET made == connect(sockets, c, FALSE) IN
        /\ sockets' = made[1]
        /\ wsRef' = made[2]
    /\ hookCallId' = c
    /\ UNCHANGED <<reconnectTimeoutRef, storeVars>>

\* A dependency of the effect changed (callId, or connect because options is
\* a new object): the cleanup runs disconnect(), then the effect connects.
RerunEffect(c) ==
    /\ hookCallId # NoId
    /\ LET left == disconnect(sockets, wsRef, reconnectTimeoutRef) IN
        /\ FreeSlots(left) # {}
        /\ LET made == connect(left, c, FALSE) IN
            /\ sockets' = made[1]
            /\ wsRef' = made[2]
    /\ reconnectTimeoutRef' = 0
    /\ hookCallId' = c
    /\ UNCHANGED storeVars

\* The component unmounts: the cleanup runs disconnect().
Unmount ==
    /\ hookCallId # NoId
    /\ sockets' = disconnect(sockets, wsRef, reconnectTimeoutRef)
    /\ wsRef' = 0
    /\ reconnectTimeoutRef' = 0
    /\ hookCallId' = NoId
    /\ UNCHANGED storeVars

\* The connection of socket k is established.
WsOpen(k, callback) ==
    /\ sockets[k].readyState = "CONNECTING"
    /\ callback = "sendMessage" /\ wsRef # 0 => Len(sockets[wsRef].sent) + 1 < MaxSent
    /\ sockets' = onopen(sockets, wsRef, k, callback)
    /\ UNCHANGED <<wsRef, reconnectTimeoutRef, hookCallId, storeVars>>

\* The connection of socket k ends: it failed, the server or the network
\* dropped it, or the handshake begun by close() finished.
WsClose(k) ==
    /\ sockets[k].readyState \in {"CONNECTING", "OPEN", "CLOSING"}
    /\ sockets' = onclose(sockets, k)
    /\ reconnectTimeoutRef' = k
    /\ UNCHANGED <<wsRef, hookCallId, storeVars>>

\* The reconnect timer of socket k fires: connect() of the closure that made k.
ReconnectTimer(k) ==
    /\ sockets[k].timer # 0
    /\ LET made == connect([sockets EXCEPT ![k] = NoSocket],
                           sockets[k].callId, sockets[k].stale) IN
        /\ sockets' = made[1]
        /\ wsRef' = made[2]
    /\ reconnectTimeoutRef' = IF reconnectTimeoutRef = k THEN 0 ELSE reconnectTimeoutRef
    /\ UNCHANGED <<hookCallId, storeVars>>

\* The component calls sendMessage.
SendMessage ==
    /\ hookCallId # NoId
    /\ wsRef # 0
    /\ sockets[wsRef].readyState = "OPEN"
    /\ Len(sockets[wsRef].sent) < MaxSent
    /\ sockets' = sendMessage(sockets, wsRef, AppMessage)
    /\ UNCHANGED <<wsRef, reconnectTimeoutRef, hookCallId, storeVars>>

----------------------------------------------------------------------------
(* The inbound path: ws.onmessage -> JSON.parse -> CallPage onMessage *)

\* JavaScript values: null, a number, an array, an object with its fields.
JsNull == [kind |-> "null"]
JsNumber(n) == [kind |-> "number", value |-> n]
JsArray(items) == [kind |-> "array", items |-> items]
JsObject(fields) == [kind |-> "object", fields |-> fields]

\* What a call returns: a value, or an exception thrown.
Return(value) == [threw |-> FALSE, value |-> value]
Throw(name) == [threw |-> TRUE, value |-> name]

StatusUpdateMessage == [type |-> "status_update", status |-> "ringing"]

\* event.data of the payloads the server, or anything else on the wire, sends.
MalformedPayloads ==
    { "not json", "[]", "null", "42", "{}", "{\"type\":\"pong\"}" }

TranscriptPayloads ==
    { "{\"type\":\"transcript\",\"speaker\":\"user\",\"text\":\"hello\",\"timestamp\":2}",
      "{\"type\":\"transcript\",\"speaker\":\"ai\",\"text\":\"hi there\",\"timestamp\":1}" }

StatusUpdatePayloads ==
    { "{\"type\":\"status_update\",\"status\":\"ringing\"}" }

Payloads == MalformedPayloads \cup TranscriptPayloads \cup StatusUpdatePayloads

\* JSON.parse(data).
JSONparse(data) ==
    CASE data = "not json" -> Throw("SyntaxError")
      [] data = "[]" -> Return(JsArray(<<>>))
      [] data = "null" -> Return(JsNull)
      [] data = "42" -> Return(JsNumber(42))
      [] data = "{}" -> Return(JsObject(<<>>))
      [] data = "{\"type\":\"pong\"}" -> Return(JsObject([type |-> "pong"]))
      [] data = "{\"type\":\"transcript\",\"speaker\":\"user\",\"text\":\"hello\",\"timestamp\":2}"
            -> Return(JsObject(UserNext))
      [] data = "{\"type\":\"transcript\",\"speaker\":\"ai\",\"text\":\"hi there\",\"timestamp\":1}"
            -> Return(JsObject(AiFirst))
      [] data = "{\"type\":\"status_update\",\"status\":\"ringing\"}"
            -> Return(JsObject(StatusUpdateMessage))

\* value[name]: a TypeError on null, undefined where there is no such field.
GetProperty(value, name) ==
    IF value.kind = "null" THEN Throw("TypeError")
    ELSE IF value.kind = "object" /\ name \in DOMAIN value.fields
         THEN Return(value.fields[name])
         ELSE Return("undefined")

\* What a handler dispatches to the store, if anything.
NoDispatch == [type |-> "none"]
Dispatch(type, payload) == [type |-> type, payload |-> payload]

\* options.onMessage of CallPage, for the callId of its render.
onMessage(callId, message) ==
    LET type == GetProperty(message, "type") IN
    IF type.threw THEN type
    ELSE IF type.value = "transcript"
         THEN Return(Dispatch("call/addTranscript",
                              Transcript(callId, message.fields)))
    ELSE IF type.value = "status_update"
         THEN Return(Dispatch("call/updateCallStatus",
                              [callId |-> callId, status |-> message.fields.status]))
    ELSE Return(NoDispatch)

\* Mutant: the handler has no try/catch.
onmessage_NoCatch(callId, data) ==
    LET message == JSONparse(data) IN
    IF message.threw THEN message ELSE onMessage(callId, message.value)

\* ws.onmessage of a socket made for callId: parse and callback inside one
\* try block, whose catch logs the error.
onmessage(callId, data) ==
    LET message == JSONparse(data) IN
    IF message.threw THEN Return(NoDispatch)
    ELSE LET called == onMessage(callId, message.value) IN
         IF called.threw THEN Return(NoDispatch) ELSE called

\* Mutant: the failure of the channel is shown to the user.
onerror_SetError(callId) ==
    Return(Dispatch("call/setError", "WebSocket error"))

\* ws.onerror of a socket made for callId: the error is logged, and
\* options.onError is called if CallPage passed one - it passes none.
onerror(callId) == Return(NoDispatch)

\* The slice reducer on what was dispatched.
reducer(s, action) ==
    CASE action.type = "call/addTranscript" -> addTranscript(s, action.payload)
      [] action.type = "call/updateCallStatus" -> updateCallStatus(s, action.payload)
      [] action.type = "call/setError" -> setError(s, action.payload)
      [] OTHER -> s

\* A message event on socket k (messages are delivered only while OPEN).
WsMessage(k, data) ==
    /\ sockets[k].readyState = "OPEN"
    /\ Len(sockets[k].received) < MaxReceived
    /\ LET handled == onmessage(sockets[k].callId, data)
           action == IF handled.threw THEN NoDispatch ELSE handled.value
       IN  /\ action.type = "call/addTranscript" => Len(state.transcripts) < MaxLog
           /\ state' = reducer(state, action)
           /\ last' = IF action = NoDispatch THEN last
                      ELSE Action(action.type, sockets[k].callId)
           /\ sinceSnapshot' =
                 IF action.type = "call/addTranscript" /\ sinceSnapshot.inForce
                 THEN [sinceSnapshot EXCEPT !.log = Append(@, action.payload)]
                 ELSE sinceSnapshot
           /\ sockets' = [sockets EXCEPT ![k].received =
                             Append(@, [data |-> data, threw |-> handled.threw])]
    /\ UNCHANGED <<inflight, viewCallId, wsRef, reconnectTimeoutRef, hookCallId>>

\* The connection of socket k fails: the error event, then the close event.
WsError(k) ==
    /\ sockets[k].readyState \in {"CONNECTING", "OPEN"}
    /\ LET action == onerror(sockets[k].callId).value IN
        /\ state' = reducer(state, action)
        /\ last' = IF action = NoDispatch THEN last
                   ELSE Action(action.type, sockets[k].callId)
    /\ sockets' = onclose(sockets, k)
    /\ reconnectTimeoutRef' = k
    /\ UNCHANGED <<inflight, viewCallId, sinceSnapshot, wsRef, hookCallId>>

\* The hook as CallPage uses it: no onOpen is passed, sendMessage is not called.
NextWS ==
    \/ \E c \in CallIds : Mount(c)
    \/ \E c \in CallIds : RerunEffect(c)
    \/ Unmount
    \/ \E k \in Slots : WsOpen(k, "undefined")
    \/ \E k \in Slots : WsClose(k)
    \/ \E k \in Slots : ReconnectTimer(k)

\* A timer that is set and not cleared fires.
SpecWS ==
    /\ Init
    /\ [][NextWS]_vars
    /\ \A k \in Slots : WF_vars(ReconnectTimer(k))

\* The hook with any caller: onOpen may be passed, sendMessage may be called.
NextSend ==
    \/ \E c \in CallIds : Mount(c)
    \/ \E c \in CallIds : RerunEffect(c)
    \/ Unmount
    \/ \E k \in Slots, callback \in OnOpenCallbacks : WsOpen(k, callback)
    \/ \E k \in Slots : WsClose(k)
    \/ \E k \in Slots : ReconnectTimer(k)
    \/ SendMessage

SpecSend ==
    /\ Init
    /\ [][NextSend]_vars
    /\ \A k \in Slots : WF_vars(ReconnectTimer(k))

\* One mounted CallPage whose effect stays in force, with the messages of the
\* server: the connection, its messages, its loss and the reconnects.
NextStream ==
    \/ \E c \in CallIds : Mount(c)
    \/ \E k \in Slots : WsOpen(k, "undefined")
    \/ \E k \in Slots, data \in Payloads : WsMessage(k, data)
    \/ \E k \in Slots : WsError(k)
    \/ \E k \in Slots : WsClose(k)
    \/ \E k \in Slots : ReconnectTimer(k)

SpecStream ==
    /\ Init
    /\ [][NextStream]_vars
    /\ \A k \in Slots : WF_vars(ReconnectTimer(k))

----------------------------------------------------------------------------
(* Claims about the transport channel (SpecWS, SpecSend) *)

Alive(k) == sockets[k] # NoSocket

\* Socket k belongs to the closure of the effect in force.
Current(k) == Alive(k) /\ ~sockets[k].stale

\* C1: once disconnect() has run for a closure of the hook, no step makes a
\* new WebSocket for that closure.
C1_NoConnectAfterDisconnect ==
    [][\A k \in Slots :
        (sockets'[k].readyState = "CONNECTING" /\ sockets[k].readyState # "CONNECTING")
            => ~sockets'[k].stale]_vars

\* C2: at every moment at most one WebSocket is connecting or open.
C2_AtMostOneConnection ==
    Cardinality({k \in Slots : sockets[k].readyState \in {"CONNECTING", "OPEN"}}) <= 1

\* C3: while an effect is in force and disconnect() has not run on it, its
\* closure has exactly one connection, for the callId of the effect, which is
\* connecting, open, or closed with one reconnect timer of 3000 ms pending;
\* and every such closed connection is followed by a new connecting one
\* (or by the end of the effect).
C3_OneAttemptInForce ==
    hookCallId # NoId =>
        \E k \in Slots :
            /\ Current(k)
            /\ \A j \in Slots : Current(j) => j = k
            /\ sockets[k].callId = hookCallId
            /\ \/ sockets[k].readyState \in {"CONNECTING", "OPEN"} /\ sockets[k].timer = 0
               \/ sockets[k].readyState = "CLOSED" /\ sockets[k].timer = ReconnectDelay

C3_ClosedUnexpectedly(k) ==
    Current(k) /\ sockets[k].readyState = "CLOSED"

C3_Reconnecting ==
    \E j \in Slots : Current(j) /\ sockets[j].readyState = "CONNECTING"

C3_ReconnectsAfterEveryClose ==
    /\ []C3_OneAttemptInForce
    /\ \A k \in Slots :
          C3_ClosedUnexpectedly(k) ~> (C3_Reconnecting \/ hookCallId = NoId)

\* C3 witness: a connection that had been opened and subscribed has closed
\* unexpectedly and its reconnect timer is pending.
C3_Witness ==
    \E k \in Slots :
        /\ C3_ClosedUnexpectedly(k)
        /\ sockets[k].timer = ReconnectDelay
        /\ sockets[k].sent = <<SubscribeMessage(hookCallId)>>

IsSubscribe(m) == m.type = "subscribe"

\* C4: a connection that has opened has sent the subscribe message for its
\* callId as its first outbound message and has sent it once; a connection
\* that has not opened has sent nothing.
C4_SubscribeFirstAndOnce ==
    \A k \in Slots :
        LET ws == sockets[k] IN
        /\ ws.readyState = "CONNECTING" => ws.sent = <<>>
        /\ ws.readyState = "OPEN" =>
              /\ ws.sent # <<>>
              /\ ws.sent[1] = SubscribeMessage(ws.callId)
              /\ Cardinality({i \in 1..Len(ws.sent) : IsSubscribe(ws.sent[i])}) = 1

----------------------------------------------------------------------------
(* Claims about the store (Spec) *)

\* C5: updateCallStatus with a callId other than activeCall.id, or with no
\* activeCall, returns the state unchanged, whatever the status.
C5_MismatchedStatusIsNoOp ==
    \A c \in CallIds, status \in CallStatus :
        (state.activeCall = NULL \/ state.activeCall.id # c)
            => updateCallStatus(state, [callId |-> c, status |-> status]) = state

\* C5 witness: a status event for another call than the active one was
\* dispatched.
C5_Witness ==
    /\ last.type = "call/updateCallStatus"
    /\ state.activeCall # NULL
    /\ state.activeCall.id # last.callId

\* C6: while a snapshot is in force, the transcript log is the snapshot's list
\* followed by the entries added since, in dispatch order.
C6_AppendOnly ==
    sinceSnapshot.inForce => state.transcripts = sinceSnapshot.log

\* C6 witness: entries were appended after a snapshot, up to a log of MaxLog.
C6_Witness ==
    /\ sinceSnapshot.inForce
    /\ last.type = "call/addTranscript"
    /\ Len(state.transcripts) = MaxLog
    /\ state.transcripts[1] # state.transcripts[MaxLog]

\* C7: once fetchCallDetails.fulfilled has applied a snapshot, applying the
\* same snapshot again gives the state it already gave.
C7_SnapshotIdempotent ==
    last.type = "call/fetchDetails/fulfilled"
        => fetchCallDetailsFulfilled(state, last.payload) = state

\* C7 witness: the same non-empty snapshot was applied twice in succession.
C7_Witness ==
    /\ last.type = "call/fetchDetails/fulfilled"
    /\ last.repeated
    /\ last.payload.transcripts # <<>>

StatusOrder == <<"initiating", "ringing", "in_progress", "completed">>
Terminal == {"completed", "failed"}
Position(s) == CHOOSE i \in DOMAIN StatusOrder : StatusOrder[i] = s

\* The transition graph of the statuses, followed over one or more edges.
Advances(s, t) ==
    /\ s \notin Terminal
    /\ t = "failed" \/ Position(t) > Position(s)

FullRefresh == {"call/initiate/fulfilled", "call/fetchDetails/fulfilled"}

\* C8: a step that is no full-record refresh leaves activeCall.status as it is
\* or moves it forward along the transition graph.
C8_StatusOnlyAdvances ==
    [][(/\ state.activeCall # NULL
        /\ state'.activeCall # NULL
        /\ last'.type \notin FullRefresh)
          => \/ state'.activeCall.status = state.activeCall.status
             \/ Advances(state.activeCall.status, state'.activeCall.status)]_vars

\* C9: fetchCallDetails.fulfilled for a call that is not the call of the
\* mounted view changes neither activeCall nor the transcript log.
C9_StaleDetailsDropped ==
    [][(last'.type = "call/fetchDetails/fulfilled" /\ last'.callId # viewCallId)
          => /\ state'.activeCall = state.activeCall
             /\ state'.transcripts = state.transcripts]_vars

\* C10: dispatching endCall and its rejection change neither activeCall nor
\* the transcript log.
C10_FailedStopLeavesCall ==
    [][last'.type \in {"call/end/pending", "call/end/rejected"}
          => /\ state'.activeCall = state.activeCall
             /\ state'.transcripts = state.transcripts]_vars

\* C10 witness: a stop of a call in progress was rejected.
C10_Witness ==
    /\ last.type = "call/end/rejected"
    /\ state.activeCall # NULL
    /\ state.activeCall.status = "in_progress"
    /\ state.transcripts # <<>>

\* C11: endCall.fulfilled dispatched while the active call is in_progress
\* leaves its status completed, in that same step; and in every state whose
\* active call is completed a status_update carrying completed, for any call,
\* returns the state unchanged.
C11_StopCompletesAtOnce ==
    /\ [][(/\ last'.type = "call/end/fulfilled"
            /\ inflight' # inflight
            /\ state.activeCall # NULL
            /\ state.activeCall.status = "in_progress")
              => /\ state'.activeCall # NULL
                 /\ state'.activeCall.status = "completed"]_vars
    /\ [](\A c \in CallIds :
            (state.activeCall # NULL /\ state.activeCall.status = "completed")
                => updateCallStatus(state, [callId |-> c, status |-> "completed"])
                       = state)

\* C11 witness: the stop of the call of the view resolved and the call is
\* completed, with nothing dispatched since.
C11_Witness ==
    /\ last.type = "call/end/fulfilled"
    /\ state.activeCall # NULL
    /\ state.activeCall.id = last.callId
    /\ state.activeCall.status = "completed"
    /\ state.transcripts # <<>>

\* The step dispatches an action of this type from the stream: the last
\* action has the type, and no request was sent or answered and no view opened
\* or closed, as in every step that dispatches nothing.
StreamDispatch(type) ==
    /\ last'.type = type
    /\ UNCHANGED <<inflight, viewCallId>>

\* C17: a status_update event leaves every field of the state but
\* activeCall as it was, and of activeCall changes at most status; a
\* transcript event leaves every field but the log as it was, and the new log
\* is the old one with one entry appended.
C17_StreamEventsTouchOneField ==
    [][/\ StreamDispatch("call/updateCallStatus")
            => /\ [state' EXCEPT !.activeCall = state.activeCall] = state
               /\ \/ state'.activeCall = state.activeCall
                  \/ /\ state.activeCall # NULL
                     /\ state'.activeCall # NULL
                     /\ [state'.activeCall EXCEPT !.status = state.activeCall.status]
                            = state.activeCall
       /\ StreamDispatch("call/addTranscript")
            => /\ [state' EXCEPT !.transcripts = state.transcripts] = state
               /\ Len(state'.transcripts) = Len(state.transcripts) + 1
               /\ SubSeq(state'.transcripts, 1, Len(state.transcripts))
                      = state.transcripts]_vars

\* C17 witness: a status event for the active call set ringing, with a log of
\* two entries in the store.
C17_Witness ==
    /\ last.type = "call/updateCallStatus"
    /\ state.activeCall # NULL
    /\ state.activeCall.id = last.callId
    /\ state.activeCall.status = "ringing"
    /\ Len(state.transcripts) = 2

\* C19: getCall of the initiateCall thunk is sent only in a step that takes
\* the answer of its POST; the step that takes the answer of that getCall
\* dispatches initiateCall.fulfilled; and after initiateCall.fulfilled
\* activeCall is the record fetched and the transcript log is empty.
C19_StartCallAppliesFetchedRecord ==
    /\ [][\A c \in CallIds :
              (inflight'[Request("initiate", "getCall", c)]
                  > inflight[Request("initiate", "getCall", c)])
                => (inflight'[Request("initiate", "initiateCall", NoId)]
                      = inflight[Request("initiate", "initiateCall", NoId)] - 1)]_vars
    /\ [][\A c \in CallIds :
              (inflight'[Request("initiate", "getCall", c)]
                  < inflight[Request("initiate", "getCall", c)])
                => /\ last'.type = "call/initiate/fulfilled"
                   /\ last'.callId = c
                   /\ state'.activeCall = last'.payload.call
                   /\ state'.transcripts = <<>>]_vars
    /\ [](last.type = "call/initiate/fulfilled"
            => /\ state.activeCall = last.payload.call
               /\ state.activeCall.id = last.callId
               /\ state.transcripts = <<>>)

\* C19 witness: startCall resolved with a record that is ringing, while a
\* call view is mounted for the other call.
C19_Witness ==
    /\ last.type = "call/initiate/fulfilled"
    /\ state.activeCall = last.payload.call
    /\ state.activeCall.status = "ringing"
    /\ viewCallId \notin {NoId, last.callId}
    /\ state.transcripts = <<>>

\* C20: after fetchCallDetails.fulfilled activeCall is the record fetched and
\* the transcript log is the list fetched.
C20_DetailFetchWins ==
    last.type = "call/fetchDetails/fulfilled"
        => /\ state.activeCall = last.payload.call
           /\ state.transcripts = last.payload.transcripts

\* C20 witness: a fetch brought a call in progress with its two utterances,
\* and was not the repeat of the fetch before it.
C20_Witness ==
    /\ last.type = "call/fetchDetails/fulfilled"
    /\ ~last.repeated
    /\ state.activeCall.status = "in_progress"
    /\ Len(state.transcripts) = 2

\* C15: a step in which the call view is closed - CallPage unmounts, or its
\* callId changes - leaves activeCall null and the transcript log empty.
C15_ClosedViewClearsCall ==
    [][(viewCallId # NoId /\ viewCallId' # viewCallId)
          => /\ state'.activeCall = NULL
             /\ state'.transcripts = <<>>]_vars

\* C24: while activeCall is set, every entry of the transcript log has the
\* call_id of activeCall.
C24_LogBelongsToActiveCall ==
    state.activeCall # NULL
        => \A i \in DOMAIN state.transcripts :
              state.transcripts[i].call_id = state.activeCall.id

\* C25: endCall.fulfilled for call c, dispatched while the active call is
\* another call, leaves activeCall as it is.
C25_StopTouchesItsCallOnly ==
    [][\A c \in CallIds :
          (/\ last'.type = "call/end/fulfilled"
           /\ inflight' = Settle(Request("end", "endCall", c))
           /\ state.activeCall # NULL
           /\ state.activeCall.id # c)
            => state'.activeCall = state.activeCall]_vars

----------------------------------------------------------------------------
(* Claims about the REST failures (SpecRest) *)

\* C12: initiateCall.pending and initiateCall.rejected - the POST failed, or
\* the getCall that follows it did - change neither activeCall nor the
\* transcript log, and the rejection leaves an error in the store.
C12_FailedStartAppliesNothing ==
    [][last'.type \in {"call/initiate/pending", "call/initiate/rejected"}
          => /\ state'.activeCall = state.activeCall
             /\ state'.transcripts = state.transcripts
             /\ last'.type = "call/initiate/rejected" => state'.error # NoError]_vars

\* C12 witness: the POST created call last.callId, its getCall failed, and the
\* store still shows the other call with its log.
C12_Witness ==
    /\ last.type = "call/initiate/rejected"
    /\ last.callId # NoId
    /\ state.activeCall # NULL
    /\ state.activeCall.id # last.callId
    /\ state.transcripts # <<>>
    /\ state.error # NoError

RejectedTypes ==
    {"call/initiate/rejected", "call/fetchHistory/rejected",
     "call/fetchDetails/rejected", "call/end/rejected"}

\* C13: after the rejection of any of the four thunks the error field holds
\* the message of that failure (some text when the failure has none).
C13_EveryFailureSetsError ==
    last.type \in RejectedTypes
        => IF last.payload.message # ""
           THEN state.error = last.payload.message
           ELSE state.error # NoError

\* C14: fetchCallHistory.rejected leaves callHistory, totalCalls and
\* currentPage as they were, fetchCallDetails.rejected leaves activeCall and
\* the transcript log as they were, and both leave loading false.
C14_FailedLoadKeepsData ==
    [][/\ last'.type = "call/fetchHistory/rejected"
            => /\ state'.callHistory = state.callHistory
               /\ state'.totalCalls = state.totalCalls
               /\ state'.currentPage = state.currentPage
               /\ ~state'.loading
       /\ last'.type = "call/fetchDetails/rejected"
            => /\ state'.activeCall = state.activeCall
               /\ state'.transcripts = state.transcripts
               /\ ~state'.loading]_vars

\* C14 witness: a history load failed after one had filled the list, while a
\* call with a log is shown.
C14_Witness ==
    /\ last.type = "call/fetchHistory/rejected"
    /\ state.callHistory # <<>>
    /\ state.currentPage = 2
    /\ state.activeCall # NULL
    /\ state.transcripts # <<>>
    /\ ~state.loading

\* C21: a dispatch of clearActiveCall gives the state it found with
\* activeCall null and the transcript log empty: callHistory, totalCalls,
\* currentPage, loading and error are the ones before the dispatch.
C21_ClearTouchesCallAndLogOnly ==
    [][(last'.type = "call/clearActiveCall" /\ UNCHANGED <<inflight, viewCallId>>)
          => state' = [state EXCEPT !.activeCall = NULL, !.transcripts = <<>>]]_vars

\* C21 witness: the call and its log were cleared while a page of history,
\* an error and a request in flight were in the store.
C21_Witness ==
    /\ last.type = "call/clearActiveCall"
    /\ state.activeCall = NULL
    /\ state.transcripts = <<>>
    /\ state.callHistory # <<>>
    /\ state.currentPage = 2
    /\ state.error # NoError
    /\ state.loading

\* callHistory, totalCalls and currentPage of a state.
HistoryPageOf(s) == <<s.callHistory, s.totalCalls, s.currentPage>>

\* C22: the three history fields are those of the initial state or those of
\* one response of GET /calls; and a step that changes any of them is a
\* dispatch of fetchCallHistory.fulfilled.
C22_HistoryFromOneResponse ==
    /\ [](\/ HistoryPageOf(state) = HistoryPageOf(initialState)
          \/ \E response \in CallListResponses :
                HistoryPageOf(state)
                    = <<response.items, response.total, response.page>>)
    /\ [][HistoryPageOf(state') # HistoryPageOf(state)
            => /\ last'.type = "call/fetchHistory/fulfilled"
               /\ inflight' = Settle(Request("history", "getCalls", NoId))]_vars

\* C22 witness: the second page of a history of 21 calls was loaded.
C22_Witness ==
    /\ last.type = "call/fetchHistory/fulfilled"
    /\ state.callHistory # <<>>
    /\ state.totalCalls = 21
    /\ state.currentPage = 2


\* Thunks whose pending sets loading, awaiting a response.
LoadingRequests == {r \in Requests : r.kind \in {"initiate", "history", "details"}}

\* C26: loading is true exactly when an initiate, history or detail request
\* is in flight.
C26_LoadingTracksRequests ==
    state.loading <=> SumOver(inflight, LoadingRequests) > 0

----------------------------------------------------------------------------
(* Claims about the inbound path (SpecStream) *)

\* Socket k took a message event with one of these payloads in this step.
Delivered(k, payloads) ==
    /\ Len(sockets'[k].received) = Len(sockets[k].received) + 1
    /\ sockets'[k].received[Len(sockets'[k].received)].data \in payloads

\* Socket k has taken a malformed payload on its connection.
TookMalformed(k) ==
    \E i \in DOMAIN sockets[k].received :
        sockets[k].received[i].data \in MalformedPayloads

\* C16: no message event lets an exception out of ws.onmessage; a malformed
\* payload (no JSON, an array, null, a number, an object without type or with
\* an unknown type) changes nothing in the store and leaves the socket OPEN;
\* and a transcript delivered on a connection that took a malformed payload
\* is appended to the log.
C16_MalformedPayloadsIgnored ==
    /\ [](\A k \in Slots : \A i \in DOMAIN sockets[k].received :
              ~sockets[k].received[i].threw)
    /\ [][\A k \in Slots :
            /\ Delivered(k, MalformedPayloads)
                  => /\ state' = state
                     /\ sockets'[k].readyState = "OPEN"
            /\ (TookMalformed(k) /\ Delivered(k, TranscriptPayloads))
                  => /\ Len(state'.transcripts) = Len(state.transcripts) + 1
                     /\ sockets'[k].readyState = "OPEN"]_vars

\* C16 witness: a connection delivered the payload null, whose callback
\* raises a TypeError, and then a transcript, which is in the log.
C16_Witness ==
    \E k \in Slots :
        /\ sockets[k].readyState = "OPEN"
        /\ Len(sockets[k].received) = 2
        /\ sockets[k].received[1].data = "null"
        /\ sockets[k].received[2].data \in TranscriptPayloads
        /\ state.transcripts # <<>>
        /\ last.type = "call/addTranscript"

\* The transcript entries that the events of socket k stand for, in the order
\* the connection delivered them.
DeliveredTranscripts(k) ==
    LET events == SelectSeq(sockets[k].received,
                            LAMBDA e : e.data \in TranscriptPayloads)
    IN  [i \in 1..Len(events) |->
            Transcript(sockets[k].callId, JSONparse(events[i].data).value.fields)]

\* C18: the transcript events a connection has delivered are the end of the
\* log, entry by entry in delivery order, whatever their timestamps.
C18_DeliveryOrderKept ==
    \A k \in Slots :
        LET delivered == DeliveredTranscripts(k)
            n == Len(state.transcripts)
        IN  /\ Len(delivered) <= n
            /\ SubSeq(state.transcripts, n - Len(delivered) + 1, n) = delivered

\* C18 witness: one connection delivered (user, "hello") and then
\* (ai, "hi there"), whose timestamp is the earlier one; the log has the two
\* in that order.
C18_Witness ==
    \E k \in Slots :
        /\ Len(DeliveredTranscripts(k)) = 2
        /\ Len(state.transcripts) = 2
        /\ state.transcripts[1].text = "hello"
        /\ state.transcripts[2].text = "hi there"
        /\ state.transcripts[1].timestamp > state.transcripts[2].timestamp

\* C23: a step in which a socket becomes CLOSED - its error event and close
\* event, or its close event alone - changes nothing in the store, error,
\* activeCall and transcripts included, dispatches nothing, and leaves the
\* socket with its reconnect timer set.
C23_ChannelFailureStaysInChannel ==
    [][\A k \in Slots :
          (sockets[k].readyState # "CLOSED" /\ sockets'[k].readyState = "CLOSED")
            => /\ state' = state
               /\ last' = last
               /\ sockets'[k].timer = ReconnectDelay]_vars

\* C23 witness: a connection that had delivered a transcript is closed and
\* waits for its reconnect; the store shows no error.
C23_Witness ==
    \E k \in Slots :
        /\ sockets[k].readyState = "CLOSED"
        /\ sockets[k].timer = ReconnectDelay
        /\ DeliveredTranscripts(k) # <<>>
        /\ state.transcripts # <<>>
        /\ state.error = NoError

====
